---- MODULE Spec2Model ----
(***************************************************************************)
(* Model of planeta::BasicTerrainGeometry and planeta::TerrainFaceWriter   *)
(* (src/src/planet-a/geometry.h, geometry.cpp).                            *)
(*                                                                         *)
(* Numbers: an osp::Vector3 is a triple of floats.  A float is modelled as *)
(* a record [nan, v]: either NaN or the integer v.  Addition is exact on   *)
(* the integers and NaN absorbs, as in IEEE arithmetic; rounding is not    *)
(* modelled.  Vertex positions lie in the plane z = 0 on integer points,   *)
(* so that every normalized cross product is exactly (0,0,1), (0,0,-1) or  *)
(* (NaN,NaN,NaN), the last for a degenerate (collinear) face.              *)
(*                                                                         *)
(* Arrays are functions over 0..n-1 like the std::vector they model, and   *)
(* the writer's iterators are offsets into the flat arrays.                *)
(***************************************************************************)
EXTENDS Integers, Sequences, FiniteSets, Bags, TLC

\* ------------------------------------------------------------------ bounds
\* calls made to the writers of one run of Spec
MaxCalls == 4
\* calls made to the writer of one run of SpecFan
MaxFanCalls == 11
\* longest ring of SpecRing
MaxRing == 9
\* calls and removals of one run of SpecRemoval
MaxRemovalCalls == 5

\* ------------------------------------------------------------------ floats
F(k) == [nan |-> FALSE, v |-> k]

FNaN == [nan |-> TRUE, v |-> 0]

FAdd(x, y) == IF x.nan \/ y.nan THEN FNaN ELSE F(x.v + y.v)

FSub(x, y) == IF x.nan \/ y.nan THEN FNaN ELSE F(x.v - y.v)

FMul(x, y) == IF x.nan \/ y.nan THEN FNaN ELSE F(x.v * y.v)

Vec(x, y, z) == <<F(x), F(y), F(z)>>

ZeroInit == Vec(0, 0, 0)

NaN3 == <<FNaN, FNaN, FNaN>>

VAdd(a, b) == <<FAdd(a[1], b[1]), FAdd(a[2], b[2]), FAdd(a[3], b[3])>>

VSub(a, b) == <<FSub(a[1], b[1]), FSub(a[2], b[2]), FSub(a[3], b[3])>>

IsFinite(a) == \A i \in 1..3 : ~a[i].nan

\* Magnum::Math::cross(u, v)
Cross(u, v) ==
    << FSub(FMul(u[2], v[3]), FMul(u[3], v[2])),
       FSub(FMul(u[3], v[1]), FMul(u[1], v[3])),
       FSub(FMul(u[1], v[2]), FMul(u[2], v[1])) >>

Abs(k) == IF k < 0 THEN -k ELSE k

\* a faulty variant: the vector is returned as it is
NormalizedKeep(w) == w

\* Vector3::normalized(): the vector divided by its length.  The length is
\* exact for the axis-aligned vectors the planar positions produce; the zero
\* vector gives 0/0 = NaN in every component.
Normalized(w) ==
    IF ~IsFinite(w) THEN NaN3
    ELSE LET len == Abs(w[1].v) + Abs(w[2].v) + Abs(w[3].v)
         IN  IF len = 0 THEN NaN3
             ELSE <<F(w[1].v \div len), F(w[2].v \div len), F(w[3].v \div len)>>

\* ------------------------------------------------------------------ state
VARIABLES
    info,                   \* ChunkSkeleton capacities and ChunkMeshBufferInfo
    chunkSharedUsed,        \* skChunks.m_chunkSharedUsed, one row per chunk
    chunkVbufPos,           \* BasicTerrainGeometry::chunkVbufPos
    chunkVbufNrm,           \* BasicTerrainGeometry::chunkVbufNrm
    chunkIbuf,              \* BasicTerrainGeometry::chunkIbuf
    chunkFanNormalContrib,  \* BasicTerrainGeometry::chunkFanNormalContrib
    chunkFillSharedNormals, \* BasicTerrainGeometry::chunkFillSharedNormals
    sharedNormals,          \* BasicTerrainGeometry::sharedNormals
    sharedNormalsDirty,     \* the bit vector behind rSharedNormalsDirty
    writer,                 \* one TerrainFaceWriter per chunk being built
    status,                 \* "running", "aborted" (failed LGRN_ASSERT), "crashed"
    emitted,                \* history: bag of the shared-normal calls made
    lastCall,               \* history: the call made by the last step
    calls,                  \* history: number of calls made
    ring,                   \* the caller of SpecRing: the length of its ring
    build,                  \* the caller of SpecRemoval: chunk being built
    m_areaSat,              \* SysAreaAssociate::m_areaSat
    m_activatedSats,        \* SysAreaAssociate::m_activatedSats
    m_activators,           \* SysAreaAssociate::m_activators, by satellite type
    ACompActivatedSat,      \* the scene registry's ACompActivatedSat, by entity
    areaCall                \* history: the last call made on the SysAreaAssociate

\* the SysAreaAssociate, the components it attaches and its history
areaVars == << m_areaSat, m_activatedSats, m_activators, ACompActivatedSat, areaCall >>

\* the terrain geometry, its writers and their history
geomVars == << info, chunkSharedUsed, chunkVbufPos, chunkVbufNrm, chunkIbuf,
               chunkFanNormalContrib, chunkFillSharedNormals, sharedNormals,
               sharedNormalsDirty, writer, status, emitted, lastCall, calls, ring, build >>

vars == << geomVars, areaVars >>

\* --------------------------------------------------------- SysAreaAssociate
\* entt::null, the value of a Satellite or ActiveEnt that names nothing
entt_null == -1

\* the entities the scene can hold
MaxEnt == 2

Entities == 0 .. MaxEnt - 1

\* the universe: satellite 0 is an active area, satellites 1 and 2 carry
\* UCompActivatable and a UCompType each
Satellites == 0 .. 2

\* m_universe.get_reg().view<UCompActivatable>()
Activatable == {1, 2}

Types == {"planet", "vehicle"}

\* ureg.get<UCompType>(sat).m_type
UCompType(sat) == IF sat = 1 THEN "planet" ELSE "vehicle"

\* the IActivator objects a caller can register
Activators == {"SysPlanetA", "SysVehicle"}

\* m_activators.end(): no activator is registered for the type
NoActivator == "end"

\* an entity without an ACompActivatedSat
NoComp == [has |-> FALSE, m_sat |-> entt_null, m_activator |-> "end", m_mutable |-> FALSE]

\* the SysAreaAssociate after its constructor, in a scene without activated
\* satellites
AreaConstructed ==
    /\ m_areaSat = entt_null
    /\ m_activatedSats = {}
    /\ m_activators = [t \in Types |-> NoActivator]
    /\ ACompActivatedSat = [e \in Entities |-> NoComp]
    /\ areaCall = [op |-> "none", subcalls |-> <<>>]

\* the null SharedVrtxId a value-initialized FanNormalContrib holds
NullId == -1

ChunkIds == 0 .. info.maxChunks - 1

SharedIds == 0 .. info.maxSharedVrtx - 1

VertexIds == 0 .. info.vbufSize - 1

LocalIds == 0 .. info.chunkSharedCount - 1

\* ------------------------------------------------------------------ spans
\* the rows of the 2D arrays a writer of chunk c is bound to
FaceBegin(c) == c * info.chunkMaxFaceCount

FaceEnd(c) == (c + 1) * info.chunkMaxFaceCount

FanBegin(c) == c * info.fanMaxSharedCount

FanEnd(c) == (c + 1) * info.fanMaxSharedCount

\* a faulty variant: every chunk uses the slots of the first row
FillIndexFlat(c, local) == local

FillIndex(c, local) == c * info.chunkSharedCount + local

\* ------------------------------------------------------------------ writer
Max(a, b) == IF a > b THEN a ELSE b

Min(a, b) == IF a < b THEN a ELSE b

\* a faulty variant: the two edges are crossed in the other order
calculate_face_normal_reversed(a, b, c) ==
    LET u == VSub(chunkVbufPos[b], chunkVbufPos[a])
        v == VSub(chunkVbufPos[c], chunkVbufPos[a])
    IN  Normalized(Cross(v, u))

\* TerrainFaceWriter::calculate_face_normal
calculate_face_normal(a, b, c) ==
    LET u == VSub(chunkVbufPos[b], chunkVbufPos[a])
        v == VSub(chunkVbufPos[c], chunkVbufPos[a])
    IN  Normalized(Cross(u, v))

\* What the run does after a store through an iterator that has left the
\* underlying std::vector: undefined behaviour, either the process dies at
\* once or memory the model does not hold is overwritten.  The model follows
\* the run no further in both cases.
OutOfVector == {"crashed", "corrupted"}

\* a faulty variant: every face is stored in the first slot of the buffer
StoreFaceFront(at, face) ==
    /\ chunkIbuf' = [chunkIbuf EXCEPT ![0] = face]
    /\ status' = status

\* *currentFace = selectedFaceIndx, wherever currentFace points
StoreFace(at, face) ==
    IF at \in DOMAIN chunkIbuf
    THEN /\ chunkIbuf' = [chunkIbuf EXCEPT ![at] = face]
         /\ status' = status
    ELSE /\ chunkIbuf' = chunkIbuf
         /\ status' \in OutOfVector

\* the body of fan_add_face, which fill_add_face calls
AddFaceBody(c, a, b, d, op) ==
    LET at == writer[c].currentFace
    IN  /\ status = "running"
        /\ writer' = [writer EXCEPT ![c].selectedFaceNormal = calculate_face_normal(a, b, d),
                                    ![c].selectedFaceIndx   = <<a, b, d>>,
                                    ![c].currentFace        = at + 1]
        /\ StoreFace(at, <<a, b, d>>)
        /\ lastCall' = [op |-> op, chunk |-> c, shared |-> NullId, at |-> at, found |-> FALSE,
                        face |-> <<a, b, d>>]
        /\ calls' = calls + 1
        /\ UNCHANGED << info, chunkSharedUsed, chunkVbufPos, chunkVbufNrm,
                        chunkFanNormalContrib, chunkFillSharedNormals, sharedNormals,
                        sharedNormalsDirty, emitted, ring, build, areaVars >>

fan_add_face(c, a, b, d) == AddFaceBody(c, a, b, d, "fan_add_face")

fill_add_face(c, a, b, d) == AddFaceBody(c, a, b, d, "fill_add_face")

\* a faulty variant: the other seam normals are cleared
SharedNormalsOnly(shared, n) ==
    [s \in DOMAIN sharedNormals |->
        IF s = shared THEN VAdd(sharedNormals[s], n) ELSE ZeroInit]

\* a faulty variant: the seam normal is overwritten, not accumulated
SharedNormalsSet(shared, n) == [sharedNormals EXCEPT ![shared] = n]

\* sharedNormals[shared.value] += selectedFaceNormal
SharedNormalsAdd(shared, n) == [sharedNormals EXCEPT ![shared] = VAdd(@, n)]

\* a faulty variant: the dirty set is replaced by the one bit
DirtyOnly(shared) == {shared}

\* rSharedNormalsDirty.set(shared.value)
DirtySet(shared) == sharedNormalsDirty \cup {shared}

\* the history of shared-normal calls
Emit(c, path, shared, n) ==
    emitted (+) SetToBag({[chunk |-> c, path |-> path, shared |-> shared, normal |-> n]})

\* a faulty variant: the normal is added to every fill slot
FillContribAll(at, n) == [k \in DOMAIN chunkFillSharedNormals |-> VAdd(chunkFillSharedNormals[k], n)]

\* a faulty variant: the fill slot is overwritten, not accumulated
FillContribSet(at, n) == [chunkFillSharedNormals EXCEPT ![at] = n]

\* fillNormalContrib[local.value] += selectedFaceNormal
FillContribAdd(at, n) == [chunkFillSharedNormals EXCEPT ![at] = VAdd(@, n)]

fill_add_normal_shared(c, vertex, local) ==
    LET shared == chunkSharedUsed[c][local]
        n      == writer[c].selectedFaceNormal
        at     == FillIndex(c, local)
    IN  /\ status = "running"
        /\ chunkFillSharedNormals' = FillContribAdd(at, n)
        /\ sharedNormals' = SharedNormalsAdd(shared, n)
        /\ sharedNormalsDirty' = DirtySet(shared)
        /\ emitted' = Emit(c, "fill", shared, n)
        /\ lastCall' = [op |-> "fill_add_normal_shared", chunk |-> c, shared |-> shared,
                        at |-> at, found |-> FALSE]
        /\ calls' = calls + 1
        /\ UNCHANGED << info, chunkSharedUsed, chunkVbufPos, chunkVbufNrm, chunkIbuf,
                        chunkFanNormalContrib, writer, status, ring, build, areaVars >>

fill_add_normal_filled(c, vertex) ==
    /\ status = "running"
    /\ chunkVbufNrm' = [chunkVbufNrm EXCEPT ![vertex] = VAdd(@, writer[c].selectedFaceNormal)]
    /\ lastCall' = [op |-> "fill_add_normal_filled", chunk |-> c, shared |-> NullId,
                    at |-> vertex, found |-> FALSE]
    /\ calls' = calls + 1
    /\ UNCHANGED << info, chunkSharedUsed, chunkVbufPos, chunkIbuf, chunkFanNormalContrib,
                    chunkFillSharedNormals, sharedNormals, sharedNormalsDirty, writer,
                    status, emitted, ring, build, areaVars >>

\* the number of records each search window spans
SearchWidth == 4

searchAFirst(begin, last) == Max(last - SearchWidth, begin)

searchBLast(begin, aFirst) == Min(begin + SearchWidth, aFirst)

\* the records of [first, last) that match
Matches(first, last, shared) ==
    {i \in first .. last - 1 : chunkFanNormalContrib[i].shared = shared}

\* std::find_if(first, last, matches): the first match, else last
find_if(first, last, shared) ==
    LET m == Matches(first, last, shared)
    IN  IF m = {} THEN last ELSE CHOOSE i \in m : \A j \in m : i <= j

\* a faulty variant: the two windows are searched, the remainder of the
\* span is never checked
FindContribUnchecked(begin, last, shared) ==
    LET aFirst == searchAFirst(begin, last)
        bLast  == searchBLast(begin, aFirst)
        a      == find_if(aFirst, last, shared)
        b      == find_if(begin, bLast, shared)
    IN  IF a /= last THEN [found |-> TRUE, at |-> a, broken |-> FALSE]
        ELSE IF b /= bLast THEN [found |-> TRUE, at |-> b, broken |-> FALSE]
        ELSE [found |-> FALSE, at |-> last, broken |-> FALSE]

\* the lambda of fan_add_normal_shared: the record to add to, found or not,
\* or a failed LGRN_ASSERTM
FindContrib(begin, last, shared) ==
    LET aFirst == searchAFirst(begin, last)
        bLast  == searchBLast(begin, aFirst)
        inA    == find_if(aFirst, last, shared)
        inB    == find_if(begin, bLast, shared)
    IN  IF inA /= last THEN [found |-> TRUE, at |-> inA, broken |-> FALSE]
        ELSE IF inB /= bLast THEN [found |-> TRUE, at |-> inB, broken |-> FALSE]
        ELSE [found |-> FALSE, at |-> last,
              broken |-> Matches(begin, last, shared) /= {}]

\* LGRN_ASSERT(contribLast != fanNormalContrib.end()), after std::advance
SpanLeft(last, end) == last /= end

\* rContrib.shared = shared; rContrib.sum = osp::Vector3{osp::ZeroInit}
ContribNew(at, shared) ==
    [chunkFanNormalContrib EXCEPT ![at] = [shared |-> shared, sum |-> ZeroInit]]

\* a faulty variant: the record's sum is left as it is
ContribSumKeep(contribs, at, n) == contribs

\* rContrib.sum += selectedFaceNormal
ContribSumAdd(contribs, at, n) == [contribs EXCEPT ![at].sum = VAdd(@, n)]

\* fan_add_normal_shared from line 135 on: the contribution is recorded
FanContribRecord(c, shared) ==
    LET n    == writer[c].selectedFaceNormal
        last == writer[c].contribLast
        r    == FindContrib(FanBegin(c), last, shared)
    IN  /\ status = "running"
        /\ emitted' = Emit(c, "fan", shared, n)
        /\ lastCall' = [op |-> "fan_add_normal_shared", chunk |-> c, shared |-> shared,
                        at |-> r.at, found |-> r.found]
        /\ calls' = calls + 1
        /\ IF r.broken
           THEN \* "search code above is broken XD"
                /\ status' = "aborted"
                /\ UNCHANGED << chunkFanNormalContrib, sharedNormalsDirty, writer >>
           ELSE IF r.found
           THEN /\ chunkFanNormalContrib' = ContribSumAdd(chunkFanNormalContrib, r.at, n)
                /\ UNCHANGED << sharedNormalsDirty, writer, status >>
           ELSE IF r.at \notin DOMAIN chunkFanNormalContrib
           THEN \* rContrib is *contribLast, outside the vector
                /\ status' \in OutOfVector
                /\ writer' = [writer EXCEPT ![c].contribLast = last + 1]
                /\ UNCHANGED << chunkFanNormalContrib, sharedNormalsDirty >>
           ELSE /\ sharedNormalsDirty' = DirtySet(shared)
                /\ writer' = [writer EXCEPT ![c].contribLast = last + 1]
                /\ IF SpanLeft(last + 1, FanEnd(c))
                   THEN /\ chunkFanNormalContrib' =
                               ContribSumAdd(ContribNew(r.at, shared), r.at, n)
                        /\ status' = status
                   ELSE /\ chunkFanNormalContrib' = ContribNew(r.at, shared)
                        /\ status' = "aborted"
        /\ UNCHANGED << info, chunkSharedUsed, chunkVbufPos, chunkVbufNrm, chunkIbuf,
                        chunkFillSharedNormals, ring, areaVars >>

\* sharedNormals[shared.value] += selectedFaceNormal, then the record
fan_add_normal_shared(c, vertex, shared) ==
    /\ sharedNormals' = SharedNormalsAdd(shared, writer[c].selectedFaceNormal)
    /\ FanContribRecord(c, shared)
    /\ UNCHANGED build

\* ------------------------------------------------------------------ start
\* BasicTerrainGeometry::resize on an empty store, then one writer bound to
\* the rows of each chunk
NewWriter(i, c) ==
    [ selectedFaceNormal |-> ZeroInit,
      selectedFaceIndx   |-> <<0, 0, 0>>,
      currentFace        |-> c * i.chunkMaxFaceCount,
      contribLast        |-> c * i.fanMaxSharedCount ]

\* the store after resize, and a writer bound to each chunk's rows
InitStore(i, n) ==
    /\ info = i
    /\ chunkSharedUsed = [c \in 0 .. i.maxChunks - 1 |->
                            [l \in 0 .. i.chunkSharedCount - 1 |-> (c + l) % i.maxSharedVrtx]]
    /\ chunkVbufPos = [v \in 0 .. i.vbufSize - 1 |-> Vec(v % 2, v \div 2, 0)]
    /\ chunkVbufNrm = [v \in 0 .. i.vbufSize - 1 |-> ZeroInit]
    /\ chunkIbuf = [k \in 0 .. i.maxChunks * i.chunkMaxFaceCount - 1 |-> <<0, 0, 0>>]
    /\ chunkFanNormalContrib = [k \in 0 .. i.maxChunks * i.fanMaxSharedCount - 1 |->
                                  [shared |-> NullId, sum |-> ZeroInit]]
    /\ chunkFillSharedNormals = [k \in 0 .. i.maxChunks * i.chunkSharedCount - 1 |-> ZeroInit]
    /\ sharedNormals = [s \in 0 .. i.maxSharedVrtx - 1 |-> ZeroInit]
    /\ sharedNormalsDirty = {}
    /\ writer = [c \in 0 .. i.maxChunks - 1 |-> NewWriter(i, c)]
    /\ status = "running"
    /\ emitted = EmptyBag
    /\ lastCall = [op |-> "none", chunk |-> 0, shared |-> NullId, at |-> 0, found |-> FALSE]
    /\ calls = 0
    /\ ring = n
    /\ AreaConstructed

InitWith(i, n) ==
    /\ InitStore(i, n)
    /\ build = [chunk |-> 0, removed |-> FALSE,
                pre |-> [s \in 0 .. i.maxSharedVrtx - 1 |-> ZeroInit]]

\* the faces a caller emits: one counter-clockwise, one degenerate
FaceInputs == {<<0, 1, 2>>, <<0, 1, 1>>}

\* the interior vertices a caller passes to fill_add_normal_filled
FilledInputs == {0, 1}

\* two chunks with two fill-shared vertices each, one of them common
MainInfo ==
    [ maxChunks |-> 2, maxSharedVrtx |-> 3, vbufSize |-> 3,
      chunkMaxFaceCount |-> 2, fanMaxSharedCount |-> 3, chunkSharedCount |-> 2 ]

Init == InitWith(MainInfo, 0)

Next ==
    \/ \E c \in ChunkIds, f \in FaceInputs :
          calls < MaxCalls /\ fill_add_face(c, f[1], f[2], f[3])
    \/ \E c \in ChunkIds, f \in FaceInputs :
          calls < MaxCalls /\ fan_add_face(c, f[1], f[2], f[3])
    \/ \E c \in ChunkIds, l \in LocalIds :
          calls < MaxCalls /\ fill_add_normal_shared(c, 0, l)
    \/ \E c \in ChunkIds, v \in FilledInputs :
          calls < MaxCalls /\ fill_add_normal_filled(c, v)
    \/ \E c \in ChunkIds, s \in SharedIds :
          calls < MaxCalls /\ fan_add_normal_shared(c, 0, s)

Spec == Init /\ [][Next]_vars

\* ------------------------------------------------------------------ SpecFan
\* One chunk whose writer receives fan calls in any order.  The handles are
\* named in the order the chunk first touches them, so the next new handle
\* is the number of records appended so far.
FanCaps == {0, 2, 10}

FanInfo(cap) ==
    [ maxChunks |-> 1, maxSharedVrtx |-> 10, vbufSize |-> 3,
      chunkMaxFaceCount |-> 16, fanMaxSharedCount |-> cap, chunkSharedCount |-> 0 ]

\* the face the caller of SpecFan emits
FanFaceInputs == {<<0, 1, 2>>}

InitFan == \E cap \in FanCaps : InitWith(FanInfo(cap), 0)

\* handles recorded by chunk c so far, and the next new one
FanInputs(c) == {s \in SharedIds : s <= writer[c].contribLast - FanBegin(c)}

NextFan ==
    \/ \E f \in FanFaceInputs :
          calls < MaxFanCalls /\ fan_add_face(0, f[1], f[2], f[3])
    \/ \E s \in FanInputs(0) :
          calls < MaxFanCalls /\ fan_add_normal_shared(0, 0, s)

SpecFan == InitFan /\ [][NextFan]_vars

\* ------------------------------------------------------------------ SpecRing
\* One chunk whose caller emits a ring of `ring` fan faces around `ring`
\* shared vertices: face i, then its two shared-normal calls, for the shared
\* vertices i and i+1 (mod ring).
RingInfo(n, cap) ==
    [ maxChunks |-> 1, maxSharedVrtx |-> n, vbufSize |-> 3,
      chunkMaxFaceCount |-> n, fanMaxSharedCount |-> cap, chunkSharedCount |-> 0 ]

InitRing == \E n \in 1 .. MaxRing : \E cap \in {n, n + 1} : InitWith(RingInfo(n, cap), n)

RingFace == calls \div 3

NextRing ==
    \/ \E f \in FaceInputs :
          /\ calls < 3 * ring /\ calls % 3 = 0
          /\ fan_add_face(0, f[1], f[2], f[3])
    \/ /\ calls < 3 * ring /\ calls % 3 = 1
       /\ fan_add_normal_shared(0, 0, RingFace)
    \/ /\ calls < 3 * ring /\ calls % 3 = 2
       /\ fan_add_normal_shared(0, 0, (RingFace + 1) % ring)

SpecRing == InitRing /\ [][NextRing]_vars

RingDone == ring > 0 /\ calls = 3 * ring

\* ------------------------------------------------------------------ pass
\* The renormalization pass: every dirty shared vertex has its sum normalized
\* in place, a zero sum being left as it is, and its dirty bit cleared.
RenormalizePass ==
    /\ status = "running"
    /\ sharedNormals' =
          [s \in DOMAIN sharedNormals |->
              IF s \in sharedNormalsDirty /\ sharedNormals[s] /= ZeroInit
              THEN Normalized(sharedNormals[s]) ELSE sharedNormals[s]]
    /\ sharedNormalsDirty' = {}
    /\ lastCall' = [op |-> "renormalize", chunk |-> 0, shared |-> NullId, at |-> 0,
                    found |-> FALSE]
    /\ calls' = calls + 1
    /\ UNCHANGED << info, chunkSharedUsed, chunkVbufPos, chunkVbufNrm, chunkIbuf,
                    chunkFanNormalContrib, chunkFillSharedNormals, writer, status,
                    emitted, ring, build, areaVars >>

NextPass ==
    \/ Next
    \/ calls < MaxCalls /\ RenormalizePass

SpecPass == Init /\ [][NextPass]_vars

\* ------------------------------------------------------------------ history
\* n added k times
Times(n, k) == <<FMul(n[1], F(k)), FMul(n[2], F(k)), FMul(n[3], F(k))>>

RECURSIVE BagSum(_)
\* the sum of the normals of the calls in set S, each as often as it was made
BagSum(S) ==
    IF S = {} THEN ZeroInit
    ELSE LET e == CHOOSE x \in S : TRUE
         IN  VAdd(Times(e.normal, emitted[e]), BagSum(S \ {e}))

\* the sum of the face normals for which a writer of a chunk in C made a
\* shared-normal call naming s
EmittedSum(C, s) == BagSum({e \in DOMAIN emitted : e.shared = s /\ e.chunk \in C})

\* the same for the calls of one path, "fill" or "fan"
EmittedOn(c, path, s) ==
    BagSum({e \in DOMAIN emitted : e.shared = s /\ e.chunk = c /\ e.path = path})

\* the shared vertices the calls of chunk c named
EmittedTo(c) == {e.shared : e \in {x \in DOMAIN emitted : x.chunk = c}}

\* no store has left the vectors
Defined == status \notin OutOfVector

\* ------------------------------------------------------------------ removal
\* the fan records chunk c holds, and the handles it touched
FanRecords(c) == FanBegin(c) .. writer[c].contribLast - 1

RECURSIVE SumOver(_, _)
\* the sum of val[i] over the indices i of set S
SumOver(S, val) ==
    IF S = {} THEN ZeroInit
    ELSE LET i == CHOOSE x \in S : TRUE
         IN  VAdd(val[i], SumOver(S \ {i}, val))

\* what chunk c recorded for shared vertex s: fill slots and fan records
FillRecorded(c, s) ==
    SumOver({FillIndex(c, l) : l \in {x \in LocalIds : chunkSharedUsed[c][x] = s}},
            chunkFillSharedNormals)

FanRecorded(c, s) ==
    SumOver({i \in FanRecords(c) : chunkFanNormalContrib[i].shared = s},
            [i \in DOMAIN chunkFanNormalContrib |-> chunkFanNormalContrib[i].sum])

Recorded(c, s) == VAdd(FillRecorded(c, s), FanRecorded(c, s))

Touched(c) ==
    {chunkSharedUsed[c][l] : l \in LocalIds}
        \cup {chunkFanNormalContrib[i].shared : i \in FanRecords(c)}

\* Chunk removal: every recorded contribution is subtracted from the shared
\* vertex's sum, the vertex is marked dirty, the records are retired and the
\* chunk's rows can be bound to a new writer.
RemoveChunk(c) ==
    /\ status = "running"
    /\ sharedNormals' = [s \in DOMAIN sharedNormals |->
                            IF s \in Touched(c) THEN VSub(sharedNormals[s], Recorded(c, s))
                            ELSE sharedNormals[s]]
    /\ sharedNormalsDirty' = sharedNormalsDirty \cup Touched(c)
    /\ chunkFillSharedNormals' =
          [k \in DOMAIN chunkFillSharedNormals |->
              IF k \in {FillIndex(c, l) : l \in LocalIds} THEN ZeroInit
              ELSE chunkFillSharedNormals[k]]
    /\ chunkFanNormalContrib' =
          [k \in DOMAIN chunkFanNormalContrib |->
              IF k \in FanRecords(c) THEN [shared |-> NullId, sum |-> ZeroInit]
              ELSE chunkFanNormalContrib[k]]
    /\ writer' = [writer EXCEPT ![c] = NewWriter(info, c)]
    /\ emitted' = [e \in {x \in DOMAIN emitted : x.chunk /= c} |-> emitted[e]]
    /\ lastCall' = [op |-> "remove", chunk |-> c, shared |-> NullId, at |-> 0,
                    found |-> FALSE, touched |-> EmittedTo(c),
                    fill |-> [s \in EmittedTo(c) |-> EmittedOn(c, "fill", s)],
                    fan |-> [s \in EmittedTo(c) |-> EmittedOn(c, "fan", s)],
                    nan |-> {s \in EmittedTo(c) : ~IsFinite(EmittedSum({c}, s))}]
    /\ calls' = calls + 1
    /\ build' = [build EXCEPT !.removed = (c = build.chunk)]
    /\ UNCHANGED << info, chunkSharedUsed, chunkVbufPos, chunkVbufNrm, chunkIbuf,
                    status, ring, areaVars >>

\* the caller ends the build of one chunk and binds the writer of the next,
\* chunks being built in the order of their ids, or builds again the chunk it
\* has just removed
BeginBuild(c) ==
    /\ status = "running"
    /\ \/ c = build.chunk + 1
       \/ c = build.chunk /\ build.removed
    /\ build' = [chunk |-> c, removed |-> FALSE, pre |-> sharedNormals]
    /\ UNCHANGED << info, chunkSharedUsed, chunkVbufPos, chunkVbufNrm, chunkIbuf,
                    chunkFanNormalContrib, chunkFillSharedNormals, sharedNormals,
                    sharedNormalsDirty, writer, status, emitted, lastCall, calls, ring, areaVars >>

\* a build is going on and the run may go on
Building == ~build.removed /\ calls < MaxRemovalCalls

NextRemoval ==
    \/ \E f \in FaceInputs :
          Building /\ fill_add_face(build.chunk, f[1], f[2], f[3])
    \/ \E f \in FaceInputs :
          Building /\ fan_add_face(build.chunk, f[1], f[2], f[3])
    \/ \E l \in LocalIds :
          Building /\ fill_add_normal_shared(build.chunk, 0, l)
    \/ \E s \in SharedIds :
          Building /\ fan_add_normal_shared(build.chunk, 0, s)
    \/ Building /\ RemoveChunk(build.chunk)
    \/ \E c \in ChunkIds : BeginBuild(c)

SpecRemoval == Init /\ [][NextRemoval]_vars

\* ------------------------------------------------------------------ claims
\* C1: seam correctness.  In every state reached from the zeroed store by
\* face and shared-normal calls of the writers of any chunks, the entry
\* sharedNormals[s] of every shared vertex s is the sum of the face normals
\* of exactly the calls that named s, over all chunks: none missing, none
\* counted twice.
C1_SeamSum ==
    Defined => \A s \in SharedIds : sharedNormals[s] = EmittedSum(ChunkIds, s)

\* two chunks have each added the normal of a face to the same shared vertex
C1_Witness ==
    \E s \in SharedIds :
        /\ sharedNormals[s] = Vec(0, 0, 2)
        /\ \A c \in ChunkIds : EmittedSum({c}, s) = Vec(0, 0, 1)

\* C2: per-chunk accounting.  While no assertion has failed, what chunk c
\* holds for shared vertex s, its fill slot plus its fan record, is the sum
\* of the face normals c itself added to s, and sharedNormals[s] is the sum
\* of what the chunks hold for s.
C2_ChunkAccounts ==
    status = "running" =>
        \A s \in SharedIds :
            /\ \A c \in ChunkIds : Recorded(c, s) = EmittedSum({c}, s)
            /\ sharedNormals[s] =
                  SumOver(ChunkIds, [c \in ChunkIds |-> Recorded(c, s)])

\* one chunk holds a fill and a fan contribution for the same shared vertex
C2_Witness ==
    /\ status = "running"
    /\ \E s \in SharedIds :
          /\ FillRecorded(0, s) = Vec(0, 0, 1)
          /\ FanRecorded(0, s) = Vec(0, 0, 1)
          /\ sharedNormals[s] = Vec(0, 0, 2)

\* C3, as claimed: building a chunk and removing it at once restores the sum
\* of every shared vertex to its value before the build.
C3_Original ==
    lastCall.op = "remove" =>
        \A s \in SharedIds : sharedNormals[s] = build.pre[s]

\* C3, amended: building a chunk and removing it at once restores the sum of
\* every shared vertex to which the chunk added finite normals only, on the
\* fill and on the fan path, and every shared vertex the chunk touched is
\* dirty afterwards.  (A NaN added by a degenerate face is never undone.)
C3_RemovalInverse ==
    lastCall.op = "remove" =>
        \A s \in SharedIds :
            /\ s \notin lastCall.nan => sharedNormals[s] = build.pre[s]
            /\ s \in lastCall.touched => s \in sharedNormalsDirty

\* a chunk was removed after it had added the normal of a face to a shared
\* vertex on the fill path and on the fan path
C3_Witness ==
    /\ lastCall.op = "remove"
    /\ lastCall.nan = {}
    /\ \E s \in lastCall.touched :
          lastCall.fill[s] = Vec(0, 0, 1) /\ lastCall.fan[s] = Vec(0, 0, 1)

\* the second chunk built was removed after it had added the normal of a face
\* to a shared vertex that held a sum of the first chunk
C3_WitnessSeam ==
    /\ lastCall.op = "remove"
    /\ lastCall.chunk = 1
    /\ \E s \in lastCall.touched \ lastCall.nan :
          /\ build.pre[s] = Vec(0, 0, 1)
          /\ VAdd(lastCall.fill[s], lastCall.fan[s]) = Vec(0, 0, 1)

\* C4, as claimed: after every fill_add_normal_shared or
\* fan_add_normal_shared call that returns, having added the normal of a
\* face to shared vertex s, the dirty bit of s is set, whatever the dirty set
\* held before and whether or not the chunk had a record for s.
C4_DirtyAfterCall ==
    ( /\ lastCall.op \in {"fill_add_normal_shared", "fan_add_normal_shared"}
      /\ status = "running"
      /\ writer[lastCall.chunk].selectedFaceNormal = Vec(0, 0, 1) )
        => lastCall.shared \in sharedNormalsDirty

\* C10, as claimed: no face is stored outside the face rows the writer was
\* bound to; one face too many ends in a failed assertion.
C10_FaceInSpan ==
    lastCall.op \in {"fill_add_face", "fan_add_face"} =>
        \/ lastCall.at \in FaceBegin(lastCall.chunk) .. FaceEnd(lastCall.chunk) - 1
        \/ status = "aborted"

\* the normal of the k-th face the writer of chunk c stored
StoredFaceNormal(c, k) ==
    LET f == chunkIbuf[FaceBegin(c) + k]
    IN  calculate_face_normal(f[1], f[2], f[3])

\* the ring is emitted: one record per shared vertex, and the record of the
\* first vertex holds the normals of the first and of the last face
RingWrapped ==
    /\ status = "running"
    /\ Cardinality(FanRecords(0)) = ring
    /\ \A s \in SharedIds :
          Cardinality({i \in FanRecords(0) : chunkFanNormalContrib[i].shared = s}) = 1
    /\ chunkFanNormalContrib[FanBegin(0)] =
          [shared |-> 0,
           sum |-> VAdd(StoredFaceNormal(0, 0), StoredFaceNormal(0, ring - 1))]

\* C5, as claimed: a ring of n fan faces around n shared vertices, for every
\* n that fits the span, is emitted without a failed assertion and ends with
\* one record per shared vertex, the record of the first vertex holding the
\* normals of exactly the first face and the wrapping last face.
C5_RingWrap ==
    ring > 0 => /\ status = "running"
                /\ RingDone => RingWrapped

\* what of C5 holds: the same for every ring shorter than the span
RingWrapWithSpareSlot ==
    (ring > 0 /\ ring < info.fanMaxSharedCount) =>
        /\ status = "running"
        /\ RingDone => RingWrapped

\* a ring longer than the first window has wrapped around
RingWrapWitness ==
    RingDone /\ ring > 4 /\ RingWrapped /\ chunkFanNormalContrib[FanBegin(0)].sum = Vec(0, 0, 2)

\* the indices, counted from the row's begin, of the records of chunk c for s
RecordsOf(c, s) ==
    {i \in 0 .. writer[c].contribLast - FanBegin(c) - 1 :
        chunkFanNormalContrib[FanBegin(c) + i].shared = s}

\* the two windows of the claims, for m records appended
LastWindow(m) == Max(m - 4, 0) .. m - 1

FirstWindow(m) == 0 .. Min(4, Max(m - 4, 0)) - 1

\* a step that is a call fan_add_normal_shared(v, s) on chunk c
FanCallOf(c, s) ==
    /\ calls' = calls + 1
    /\ lastCall'.op = "fan_add_normal_shared"
    /\ lastCall'.chunk = c
    /\ lastCall'.shared = s

\* the lookup of C6 for a call on chunk c naming s, with m records appended
WindowLookup(c, s) ==
    LET m   == writer[c].contribLast - FanBegin(c)
        n   == writer[c].selectedFaceNormal
        old == RecordsOf(c, s)
    IN  /\ LastWindow(m) \cap FirstWindow(m) = {}
        /\ lastCall'.found <=> old \cap (LastWindow(m) \cup FirstWindow(m)) /= {}
        /\ lastCall'.found =>
              /\ writer'[c].contribLast = writer[c].contribLast
              /\ \E i \in old :
                    chunkFanNormalContrib' =
                       [chunkFanNormalContrib EXCEPT ![FanBegin(c) + i].sum = VAdd(@, n)]
        /\ old = {} =>
              /\ writer'[c].contribLast = writer[c].contribLast + 1
              /\ chunkFanNormalContrib' =
                    [chunkFanNormalContrib EXCEPT
                        ![FanBegin(c) + m] = [shared |-> s, sum |-> n]]

\* C6, as claimed: with m records appended and room for one more, a call
\* naming s reuses a record of s if and only if its index lies in the last-4
\* window or in the first-4 window, which never overlap; a reused record
\* alone grows, by the face normal, and nothing is appended; with no record
\* of s, one record (s, face normal) is appended at index m.
C6_WindowLookup ==
    [][ \A c \in ChunkIds, s \in SharedIds :
           (FanCallOf(c, s) /\ writer[c].contribLast < FanEnd(c)) => WindowLookup(c, s)
      ]_vars

\* what of C6 holds: the same for every call that returns
WindowLookupOfReturningCalls ==
    [][ \A c \in ChunkIds, s \in SharedIds :
           (FanCallOf(c, s) /\ writer[c].contribLast < FanEnd(c) /\ status' = "running")
              => WindowLookup(c, s)
      ]_vars

\* no two records of a chunk carry the same handle
NoDuplicateRecords ==
    \A c \in ChunkIds : \A s \in SharedIds : Cardinality(RecordsOf(c, s)) <= 1

\* a record of s exists, outside both windows
OutsideWindows(c, s) ==
    LET m == writer[c].contribLast - FanBegin(c)
    IN  /\ RecordsOf(c, s) /= {}
        /\ RecordsOf(c, s) \cap (LastWindow(m) \cup FirstWindow(m)) = {}

\* C7: a call naming a shared vertex whose record lies outside both windows
\* ends in a failed assertion and appends nothing; so while no assertion has
\* failed, no two records of a chunk carry the same handle.
C7_SearchViolationFatal ==
    /\ [](status = "running" => NoDuplicateRecords)
    /\ [][ \A c \in ChunkIds, s \in SharedIds :
              (FanCallOf(c, s) /\ OutsideWindows(c, s)) =>
                  /\ status' = "aborted"
                  /\ writer' = writer
                  /\ chunkFanNormalContrib' = chunkFanNormalContrib
         ]_vars

\* a call named a shared vertex whose record lies outside both windows
C7_Witness ==
    /\ lastCall.op = "fan_add_normal_shared"
    /\ status = "aborted"
    /\ OutsideWindows(lastCall.chunk, lastCall.shared)

\* C8, as claimed: a build whose fan faces touch exactly N shared vertices,
\* bound to a span of exactly N records, goes on without a failed assertion
\* with its N records in the span.
C8_ExactCapacity ==
    \A c \in ChunkIds :
        (info.fanMaxSharedCount > 0 /\ writer[c].contribLast = FanEnd(c))
            => status = "running"

\* the last call stored a new record
StoredNewRecord ==
    /\ lastCall.op = "fan_add_normal_shared"
    /\ ~lastCall.found
    /\ writer[lastCall.chunk].contribLast = lastCall.at + 1

\* C9, as claimed: no record is ever stored at or beyond the end of the span
\* of fan records the writer is bound to.
C9_FanInSpan == StoredNewRecord => lastCall.at < FanEnd(lastCall.chunk)

\* what of C9 holds: the same for every span of at least one record
FanInSpanWhenNotEmpty ==
    (StoredNewRecord /\ info.fanMaxSharedCount > 0) => lastCall.at < FanEnd(lastCall.chunk)

\* ------------------------------------------------------------------ resize
\* calls made in one run of SpecResize
MaxResizeCalls == 5

\* std::vector::assign(n, value): every element is value
VectorAssign(old, n, value) == [k \in 0 .. n - 1 |-> value]

\* std::vector::resize(n, value): the elements below n are kept, value fills
\* the slots added
VectorResize(old, n, value) ==
    [k \in 0 .. n - 1 |-> IF k \in DOMAIN old THEN old[k] ELSE value]

\* the shared vertices the skeleton assigns to the local slots of each chunk
SharedUsedOf(i) ==
    [c \in 0 .. i.maxChunks - 1 |->
        [l \in 0 .. i.chunkSharedCount - 1 |-> (c + l) % i.maxSharedVrtx]]

\* BasicTerrainGeometry::resize(skCh, info); the writers of the builds that
\* follow are bound to the rows of the resized store
resize(i) ==
    /\ status = "running"
    /\ info' = i
    /\ chunkSharedUsed' = SharedUsedOf(i)
    /\ chunkVbufPos' = VectorResize(chunkVbufPos, i.vbufSize, ZeroInit)
    /\ chunkVbufNrm' = VectorResize(chunkVbufNrm, i.vbufSize, ZeroInit)
    /\ chunkIbuf' = VectorResize(chunkIbuf, i.maxChunks * i.chunkMaxFaceCount, <<0, 0, 0>>)
    /\ chunkFanNormalContrib' =
          VectorResize(chunkFanNormalContrib, i.maxChunks * i.fanMaxSharedCount,
                       [shared |-> NullId, sum |-> ZeroInit])
    /\ chunkFillSharedNormals' =
          VectorResize(chunkFillSharedNormals, i.maxChunks * i.chunkSharedCount, ZeroInit)
    /\ sharedNormals' = VectorResize(sharedNormals, i.maxSharedVrtx, ZeroInit)
    /\ sharedNormalsDirty' = sharedNormalsDirty \cap (0 .. i.maxSharedVrtx - 1)
    /\ writer' = [c \in 0 .. i.maxChunks - 1 |-> NewWriter(i, c)]
    /\ lastCall' = [op |-> "resize", chunk |-> 0, shared |-> NullId, at |-> 0,
                    found |-> FALSE, from |-> info]
    /\ calls' = calls + 1
    /\ UNCHANGED << status, emitted, ring, build, areaVars >>

\* the store the runs of SpecResize start from
ResizeStart ==
    [ maxChunks |-> 1, maxSharedVrtx |-> 2, vbufSize |-> 3,
      chunkMaxFaceCount |-> 2, fanMaxSharedCount |-> 2, chunkSharedCount |-> 1 ]

\* the capacities resize is called with: larger, the same, smaller
ResizeInputs ==
    { [ maxChunks |-> 2, maxSharedVrtx |-> 3, vbufSize |-> 4,
        chunkMaxFaceCount |-> 3, fanMaxSharedCount |-> 3, chunkSharedCount |-> 2 ],
      ResizeStart,
      [ maxChunks |-> 1, maxSharedVrtx |-> 1, vbufSize |-> 3,
        chunkMaxFaceCount |-> 1, fanMaxSharedCount |-> 1, chunkSharedCount |-> 1 ] }

InitResize == InitWith(ResizeStart, 0)

NextResize ==
    \/ \E f \in FaceInputs :
          calls < MaxResizeCalls /\ fill_add_face(0, f[1], f[2], f[3])
    \/ \E l \in LocalIds :
          calls < MaxResizeCalls /\ fill_add_normal_shared(0, 0, l)
    \/ \E v \in FilledInputs :
          calls < MaxResizeCalls /\ fill_add_normal_filled(0, v)
    \/ \E s \in SharedIds :
          calls < MaxResizeCalls /\ fan_add_normal_shared(0, 0, s)
    \/ \E i \in ResizeInputs :
          calls < MaxResizeCalls /\ resize(i)

SpecResize == InitResize /\ [][NextResize]_vars

\* no capacity of j is below that of i
Grown(i, j) ==
    /\ j.maxChunks >= i.maxChunks
    /\ j.maxSharedVrtx >= i.maxSharedVrtx
    /\ j.vbufSize >= i.vbufSize
    /\ j.chunkMaxFaceCount >= i.chunkMaxFaceCount
    /\ j.fanMaxSharedCount >= i.fanMaxSharedCount
    /\ j.chunkSharedCount >= i.chunkSharedCount

\* this step is a call of resize
ResizeStep == calls' = calls + 1 /\ lastCall'.op = "resize"

\* C11: a resize to capacities none of which is below the current one leaves
\* every entry of the position, normal, index, fan-contribution,
\* fill-contribution and shared-normal arrays as it was, at the same flat
\* index, and every fan-contribution, fill-contribution and shared-normal
\* slot it adds holds a zero sum.
C11_ResizePreserves ==
    [][ (ResizeStep /\ Grown(info, info')) =>
          /\ \A k \in DOMAIN chunkVbufPos : chunkVbufPos'[k] = chunkVbufPos[k]
          /\ \A k \in DOMAIN chunkVbufNrm : chunkVbufNrm'[k] = chunkVbufNrm[k]
          /\ \A k \in DOMAIN chunkIbuf : chunkIbuf'[k] = chunkIbuf[k]
          /\ \A k \in DOMAIN chunkFanNormalContrib :
                chunkFanNormalContrib'[k] = chunkFanNormalContrib[k]
          /\ \A k \in DOMAIN chunkFillSharedNormals :
                chunkFillSharedNormals'[k] = chunkFillSharedNormals[k]
          /\ \A k \in DOMAIN sharedNormals : sharedNormals'[k] = sharedNormals[k]
          /\ \A k \in DOMAIN chunkFanNormalContrib' \ DOMAIN chunkFanNormalContrib :
                chunkFanNormalContrib'[k].sum = ZeroInit
          /\ \A k \in DOMAIN chunkFillSharedNormals' \ DOMAIN chunkFillSharedNormals :
                chunkFillSharedNormals'[k] = ZeroInit
          /\ \A k \in DOMAIN sharedNormals' \ DOMAIN sharedNormals :
                sharedNormals'[k] = ZeroInit
      ]_vars

\* a store holding a face, a fill and a fan contribution was resized to
\* larger capacities
C11_Witness ==
    /\ lastCall.op = "resize"
    /\ Grown(lastCall.from, info)
    /\ lastCall.from.maxSharedVrtx < info.maxSharedVrtx
    /\ chunkIbuf[0] = <<0, 1, 2>>
    /\ chunkFillSharedNormals[0] = Vec(0, 0, 1)
    /\ chunkFanNormalContrib[0].sum = Vec(0, 0, 1)
    /\ sharedNormals[0] = Vec(0, 0, 2)

\* ------------------------------------------------------- two chunk builds
\* calls each of the two chunk builds makes
MaxScript == 3

\* a chunk build begins with a face ...
FaceCalls ==
    { [op |-> "fan_add_face", f |-> <<0, 1, 2>>, x |-> 0],
      [op |-> "fill_add_face", f |-> <<0, 1, 1>>, x |-> 0] }

\* ... and goes on with shared-normal calls, x the local slot or the handle
NormalCalls ==
    [op : {"fill_add_normal_shared", "fan_add_normal_shared"}, f : {<<0, 0, 0>>}, x : {0, 1}]

\* the calls one chunk build makes, in their order
Scripts ==
    { [k \in 1 .. MaxScript |-> IF k = 1 THEN first ELSE rest[k]] :
         first \in FaceCalls, rest \in [2 .. MaxScript -> NormalCalls] }

\* two chunks that share vertex 1; a fan row of two records
OrderInfo ==
    [ maxChunks |-> 2, maxSharedVrtx |-> 3, vbufSize |-> 3,
      chunkMaxFaceCount |-> 2, fanMaxSharedCount |-> 2, chunkSharedCount |-> 2 ]

\* chunk A is chunk 0 and touches 0 and 1, chunk B is chunk 1 and touches 1
\* and 2: the handle a fan call of chunk c names
FanHandle(c, x) == (c + x) % info.maxSharedVrtx

\* what the two runs are compared on
Outcome ==
    [ sharedNormals |-> sharedNormals, dirty |-> sharedNormalsDirty,
      fill |-> chunkFillSharedNormals, fan |-> chunkFanNormalContrib,
      status |-> status ]

InitOrder ==
    /\ InitStore(OrderInfo, 0)
    /\ \E a \in Scripts, b \in Scripts :
          build = [chunk |-> 0, removed |-> FALSE, run |-> 1, script |-> <<a, b>>,
                   first |-> <<>>]

\* the calls the writer of chunk c has made in this run
CallsMade(c) ==
    (writer[c].currentFace - FaceBegin(c))
       + BagCardinality([e \in {x \in DOMAIN emitted : x.chunk = c} |-> emitted[e]])

\* the build of chunk c has calls left
Unfinished(c) == CallsMade(c) < MaxScript

\* the writer of chunk c makes the next call of its build
NextCall(c) ==
    LET call == build.script[c + 1][CallsMade(c) + 1]
    IN  \/ call.op = "fan_add_face" /\ fan_add_face(c, call.f[1], call.f[2], call.f[3])
        \/ call.op = "fill_add_face" /\ fill_add_face(c, call.f[1], call.f[2], call.f[3])
        \/ call.op = "fill_add_normal_shared" /\ fill_add_normal_shared(c, 0, call.x)
        \/ call.op = "fan_add_normal_shared"
              /\ fan_add_normal_shared(c, 0, FanHandle(c, call.x))

\* the first run is over: both builds are done, or an assertion has failed
RunOver == status /= "running" \/ \A c \in ChunkIds : ~Unfinished(c)

\* the outcome of the first run is kept and the second run starts from the
\* state the first run started from
StartOver ==
    /\ build.run = 1
    /\ RunOver
    /\ build' = [build EXCEPT !.run = 2, !.first = Outcome]
    /\ chunkVbufNrm' = [v \in DOMAIN chunkVbufNrm |-> ZeroInit]
    /\ chunkIbuf' = [k \in DOMAIN chunkIbuf |-> <<0, 0, 0>>]
    /\ chunkFanNormalContrib' =
          [k \in DOMAIN chunkFanNormalContrib |-> [shared |-> NullId, sum |-> ZeroInit]]
    /\ chunkFillSharedNormals' = [k \in DOMAIN chunkFillSharedNormals |-> ZeroInit]
    /\ sharedNormals' = [s \in DOMAIN sharedNormals |-> ZeroInit]
    /\ sharedNormalsDirty' = {}
    /\ writer' = [c \in ChunkIds |-> NewWriter(info, c)]
    /\ status' = "running"
    /\ emitted' = EmptyBag
    /\ lastCall' = [op |-> "none", chunk |-> 0, shared |-> NullId, at |-> 0, found |-> FALSE]
    /\ calls' = calls + 1
    /\ UNCHANGED << info, chunkSharedUsed, chunkVbufPos, ring, areaVars >>

\* first run: chunk A is built, then chunk B
BuildAThenB ==
    /\ build.run = 1
    /\ \/ Unfinished(0) /\ NextCall(0)
       \/ ~Unfinished(0) /\ Unfinished(1) /\ NextCall(1)

\* second run: chunk B is built, then chunk A
BuildBThenA ==
    /\ build.run = 2
    /\ \/ Unfinished(1) /\ NextCall(1)
       \/ ~Unfinished(1) /\ Unfinished(0) /\ NextCall(0)

NextOrder ==
    \/ BuildAThenB
    \/ StartOver
    \/ BuildBThenA

SpecOrder == InitOrder /\ [][NextOrder]_vars

\* both runs are over and neither ended in a failed assertion
BothBuilt ==
    /\ build.run = 2
    /\ RunOver
    /\ status = "running"
    /\ build.first.status = "running"

\* C12: building A then B and building B then A from the same state give
\* the same sharedNormals array, the same dirty set and the same fill and
\* fan contribution records of each chunk (addition being exact).
C12_OrderIndependent ==
    /\ BothBuilt => Outcome = build.first
    /\ (build.run = 2 /\ RunOver) => status = build.first.status

\* both orders were run to their end, both chunks having added the normal of
\* a face to the vertex they share, one on the fill and one on the fan path
C12_Witness ==
    /\ BothBuilt
    /\ sharedNormals[1] = Vec(0, 0, 2)
    /\ chunkFillSharedNormals[FillIndex(0, 1)] = Vec(0, 0, 1)
    /\ chunkFanNormalContrib[FanBegin(1)] = [shared |-> 1, sum |-> Vec(0, 0, 1)]

\* ------------------------------------------------- interleaved chunk builds
\* the builds that are interleaved begin with the same face
InterleaveScripts == {s \in Scripts : s[1].op = "fan_add_face"}

\* no load of sharedNormals is waiting for its store
NoneHeld == [c \in 0 .. 1 |-> [pending |-> FALSE, value |-> ZeroInit, at |-> 0]]

InitInterleave ==
    /\ InitStore(OrderInfo, 0)
    /\ \E a \in InterleaveScripts, b \in InterleaveScripts :
          build = [chunk |-> 0, removed |-> FALSE, run |-> 1, script |-> <<a, b>>,
                   first |-> <<>>, held |-> NoneHeld, torn |-> FALSE]

\* the next call of the build of chunk c is fan_add_normal_shared
NextIsFan(c) ==
    /\ Unfinished(c)
    /\ build.script[c + 1][CallsMade(c) + 1].op = "fan_add_normal_shared"

\* the handle the next call of the build of chunk c names
NextHandle(c) == FanHandle(c, build.script[c + 1][CallsMade(c) + 1].x)

\* line 133 not executed as one step, first half: sharedNormals[shared] is
\* loaded
fan_add_normal_shared_load(c) ==
    /\ status = "running"
    /\ build.run = 2
    /\ NextIsFan(c)
    /\ ~build.held[c].pending
    /\ build' = [build EXCEPT !.held[c] =
                    [pending |-> TRUE, value |-> sharedNormals[NextHandle(c)], at |-> calls]]
    /\ UNCHANGED << info, chunkSharedUsed, chunkVbufPos, chunkVbufNrm, chunkIbuf,
                    chunkFanNormalContrib, chunkFillSharedNormals, sharedNormals,
                    sharedNormalsDirty, writer, status, emitted, lastCall, calls, ring, areaVars >>

\* second half: the sum of the loaded value and the face normal is stored,
\* and the call goes on; the update is torn if the other writer made a call
\* between the load and the store
fan_add_normal_shared_store(c) ==
    /\ build.run = 2
    /\ build.held[c].pending
    /\ sharedNormals' = [sharedNormals EXCEPT ![NextHandle(c)] =
                            VAdd(build.held[c].value, writer[c].selectedFaceNormal)]
    /\ FanContribRecord(c, NextHandle(c))
    /\ build' = [build EXCEPT !.held[c] = NoneHeld[c],
                              !.torn = @ \/ build.held[c].at /= calls]

\* second run: the calls of the two builds in any order, each call one step
Interleaved ==
    /\ build.run = 2
    /\ \E c \in ChunkIds :
          Unfinished(c) /\ ~build.held[c].pending /\ NextCall(c)

NextInterleave ==
    \/ BuildAThenB
    \/ StartOver
    \/ Interleaved
    \/ \E c \in ChunkIds : fan_add_normal_shared_load(c)
    \/ \E c \in ChunkIds : fan_add_normal_shared_store(c)

SpecInterleave == InitInterleave /\ [][NextInterleave]_vars

\* C13: when the calls of two writers bound to different chunks are
\* interleaved in any order, every call executed as one step (no update of
\* sharedNormals torn), the run ends with the sharedNormals, the dirty set
\* and the contribution records of the two builds run one after the other;
\* it ends in a failed assertion exactly if the sequential run does.
C13_InterleavingSerializable ==
    (build.run = 2 /\ RunOver /\ ~build.torn) =>
        /\ status = build.first.status
        /\ status = "running" => Outcome = build.first

\* the two builds are interleaved, each two calls into its three, every call
\* one step, and both have added the normal of their face to shared vertex 1
C13_Witness ==
    /\ build.run = 2
    /\ ~build.torn
    /\ \A c \in ChunkIds : CallsMade(c) = 2 /\ ~build.held[c].pending
    /\ sharedNormals[1] = Vec(0, 0, 2)

\* a torn update has lost a contribution: the run is over and a shared sum
\* is not that of the sequential run
LostContribution ==
    /\ build.run = 2
    /\ RunOver
    /\ status = "running"
    /\ build.first.status = "running"
    /\ build.torn
    /\ sharedNormals /= build.first.sharedNormals

\* a torn update is the only way to lose a contribution
NoLostContribution == ~LostContribution

\* ------------------------------------------------------- effects of a call
\* this step is a call of the operation op
CallStep(op) == calls' = calls + 1 /\ lastCall'.op = op

\* this step is a shared-normal call, on the fill or on the fan path
SharedNormalStep ==
    CallStep("fill_add_normal_shared") \/ CallStep("fan_add_normal_shared")

\* C14: a fill_add_normal_shared or fan_add_normal_shared call naming shared
\* vertex s, the face degenerate or not, changes no entry of sharedNormals
\* but that of s, no dirty bit but that of s, no fan record and no fill slot
\* of another shared vertex, and nothing in the position buffer, the
\* sharedUsed mapping or the face buffer.
C14_Containment ==
    [][ SharedNormalStep =>
          LET s == lastCall'.shared
          IN  /\ \A t \in SharedIds \ {s} : sharedNormals'[t] = sharedNormals[t]
              /\ sharedNormalsDirty' \ {s} = sharedNormalsDirty \ {s}
              /\ \A k \in DOMAIN chunkFanNormalContrib :
                    chunkFanNormalContrib'[k] /= chunkFanNormalContrib[k] =>
                       /\ chunkFanNormalContrib'[k].shared = s
                       /\ chunkFanNormalContrib[k].shared \in {s, NullId}
              /\ \A c \in ChunkIds, l \in LocalIds :
                    chunkSharedUsed[c][l] /= s =>
                       chunkFillSharedNormals'[FillIndex(c, l)] =
                          chunkFillSharedNormals[FillIndex(c, l)]
              /\ chunkVbufPos' = chunkVbufPos
              /\ chunkSharedUsed' = chunkSharedUsed
              /\ chunkIbuf' = chunkIbuf
      ]_vars

\* the normal of a degenerate face was added to one shared vertex while
\* another holds the normal of a face
C14_Witness ==
    /\ lastCall.op \in {"fill_add_normal_shared", "fan_add_normal_shared"}
    /\ sharedNormals[lastCall.shared] = NaN3
    /\ \E t \in SharedIds \ {lastCall.shared} : sharedNormals[t] = Vec(0, 0, 1)

\* ------------------------------------------------------------------ the pass
\* u is the unit vector in the direction of w, w finite and not zero
UnitOf(u, w) ==
    /\ IsFinite(u)
    /\ Abs(u[1].v) + Abs(u[2].v) + Abs(u[3].v) = 1
    /\ Times(u, Abs(w[1].v) + Abs(w[2].v) + Abs(w[3].v)) = w

FaceStep == CallStep("fill_add_face") \/ CallStep("fan_add_face")

\* the effect of a face call of chunk c with the face supplied, whichever of
\* the two operations it is
FaceStored(c, face) ==
    LET at == writer[c].currentFace
    IN  /\ lastCall'.at = at
        /\ writer'[c] = [writer[c] EXCEPT
                            !.currentFace = at + 1,
                            !.selectedFaceIndx = face,
                            !.selectedFaceNormal =
                                calculate_face_normal(face[1], face[2], face[3])]
        /\ at \in DOMAIN chunkIbuf =>
              /\ chunkIbuf'[at] = face
              /\ \A k \in DOMAIN chunkIbuf \ {at} : chunkIbuf'[k] = chunkIbuf[k]

\* C16: a writer bound at position p of the face buffer stores the k-th face
\* it is given at slot p + k, the index triple as supplied: the cursor
\* starts at p, every fill_add_face or fan_add_face call stores the triple
\* at the cursor and advances the cursor by one, no other slot is written by
\* the call, no other call moves a cursor or writes a slot, and the two
\* operations have the same effect.  (For the slots the buffer has; a store
\* past its end is undefined, see C10.)
C16_FaceOrder ==
    /\ \A c \in ChunkIds : writer[c].currentFace = FaceBegin(c)
    /\ [][ IF FaceStep
           THEN FaceStored(lastCall'.chunk, lastCall'.face)
           ELSE /\ chunkIbuf' = chunkIbuf
                /\ \A c \in ChunkIds : writer'[c].currentFace = writer[c].currentFace
         ]_vars

\* every face is stored in the buffer, and in a slot of the writer's own row
FaceStoredInOwnRow ==
    [][ FaceStep =>
          /\ status' = "running"
          /\ lastCall'.at \in FaceBegin(lastCall'.chunk) .. FaceEnd(lastCall'.chunk) - 1
      ]_vars

\* a writer has stored two different faces, in the order it was given them
C16_Witness ==
    /\ lastCall.op = "fill_add_face"
    /\ lastCall.chunk = 1
    /\ lastCall.at = FaceBegin(1) + 1
    /\ chunkIbuf[FaceBegin(1)] = <<0, 1, 1>>
    /\ chunkIbuf[FaceBegin(1) + 1] = <<0, 1, 2>>

\* ------------------------------------------------ positions change meanwhile
\* calls made in one run of SpecBind
MaxBindCalls == 4

\* the caller writes a position into the vertex buffer the writers read
set_position(v, p) ==
    /\ status = "running"
    /\ chunkVbufPos' = [chunkVbufPos EXCEPT ![v] = p]
    /\ lastCall' = [op |-> "set_position", chunk |-> 0, shared |-> NullId, at |-> v,
                    found |-> FALSE]
    /\ calls' = calls + 1
    /\ UNCHANGED << info, chunkSharedUsed, chunkVbufNrm, chunkIbuf, chunkFanNormalContrib,
                    chunkFillSharedNormals, sharedNormals, sharedNormalsDirty, writer,
                    status, emitted, ring, build, areaVars >>

\* the positions vertex 2 is moved to: the face 0, 1, 2 turns over
PositionInputs == {Vec(0, 1, 0), Vec(0, -1, 0)}

NextBind ==
    \/ \E c \in ChunkIds : calls < MaxBindCalls /\ fill_add_face(c, 0, 1, 2)
    \/ \E c \in ChunkIds : calls < MaxBindCalls /\ fan_add_face(c, 0, 1, 2)
    \/ \E c \in ChunkIds : calls < MaxBindCalls /\ fill_add_normal_filled(c, 0)
    \/ \E c \in ChunkIds : calls < MaxBindCalls /\ fill_add_normal_shared(c, 0, 0)
    \/ \E c \in ChunkIds : calls < MaxBindCalls /\ fan_add_normal_shared(c, 0, c)
    \/ \E p \in PositionInputs : calls < MaxBindCalls /\ set_position(2, p)

SpecBind == Init /\ [][NextBind]_vars

\* the normal of face f for the positions pos
FaceNormalAt(pos, f) ==
    Normalized(Cross(VSub(pos[f[2]], pos[f[1]]), VSub(pos[f[3]], pos[f[1]])))

\* the step leaves every contribution added so far as it is
ContributionsKept ==
    /\ chunkVbufNrm' = chunkVbufNrm
    /\ sharedNormals' = sharedNormals
    /\ chunkFillSharedNormals' = chunkFillSharedNormals
    /\ chunkFanNormalContrib' = chunkFanNormalContrib

\* C17: a face call binds the writer to the normal of its face for the
\* positions the vertex buffer holds at that moment; no later step but the
\* writer's next face call changes the normal the writer is bound to; every
\* fill_add_normal_filled, fill_add_normal_shared and fan_add_normal_shared
\* call adds exactly that normal; and neither a face call nor a change of
\* positions alters a contribution already added.
C17_NormalOfLatestFace ==
    [][ LET c == lastCall'.chunk
            n == writer[c].selectedFaceNormal
        IN  /\ FaceStep =>
                  /\ writer'[c].selectedFaceNormal = FaceNormalAt(chunkVbufPos, lastCall'.face)
                  /\ ContributionsKept
            /\ \A d \in ChunkIds :
                  ~(FaceStep /\ d = c) =>
                      writer'[d].selectedFaceNormal = writer[d].selectedFaceNormal
            /\ CallStep("set_position") => ContributionsKept
            /\ CallStep("fill_add_normal_filled") =>
                  chunkVbufNrm' = [chunkVbufNrm EXCEPT ![lastCall'.at] = VAdd(@, n)]
            /\ CallStep("fill_add_normal_shared") =>
                  /\ sharedNormals' = [sharedNormals EXCEPT ![lastCall'.shared] = VAdd(@, n)]
                  /\ chunkFillSharedNormals' =
                        [chunkFillSharedNormals EXCEPT ![lastCall'.at] = VAdd(@, n)]
            /\ CallStep("fan_add_normal_shared") =>
                  /\ sharedNormals' = [sharedNormals EXCEPT ![lastCall'.shared] = VAdd(@, n)]
                  /\ \A d \in ChunkIds, t \in SharedIds :
                        (d = c /\ t = lastCall'.shared /\ status' = "running") =>
                            FanRecorded(d, t)' = VAdd(FanRecorded(d, t), n)
      ]_vars

\* a normal call has added the normal the face had when it was emitted,
\* which is not the normal the positions give now
C17_Witness ==
    /\ lastCall.op \in {"fill_add_normal_filled", "fill_add_normal_shared",
                        "fan_add_normal_shared"}
    /\ writer[lastCall.chunk].selectedFaceNormal = Vec(0, 0, 1)
    /\ FaceNormalAt(chunkVbufPos, writer[lastCall.chunk].selectedFaceIndx) = Vec(0, 0, -1)
    /\ \/ chunkVbufNrm[0] = Vec(0, 0, 1)
       \/ \E s \in SharedIds : sharedNormals[s] = Vec(0, 0, 1)

\* C18: fill_add_normal_shared(v, local) of chunk c adds the face normal to
\* the fill slot local of the row of c and to sharedNormals[sharedUsed[local]]
\* and to nothing else, and leaves the fan records, the writer (contribLast
\* with it) and the normal buffer unchanged; fill_add_normal_filled(v) adds
\* it to slot v of the normal buffer and changes neither sharedNormals, nor
\* the dirty set, nor a fill slot, nor a fan record.
C18_FillFixedSlots ==
    [][ LET c == lastCall'.chunk
            n == writer[c].selectedFaceNormal
        IN  /\ CallStep("fill_add_normal_shared") =>
                  /\ \E l \in LocalIds :
                        /\ lastCall'.at = c * info.chunkSharedCount + l
                        /\ chunkFillSharedNormals' =
                              [chunkFillSharedNormals EXCEPT
                                  ![c * info.chunkSharedCount + l] = VAdd(@, n)]
                        /\ sharedNormals' =
                              [sharedNormals EXCEPT ![chunkSharedUsed[c][l]] = VAdd(@, n)]
                  /\ chunkFanNormalContrib' = chunkFanNormalContrib
                  /\ writer' = writer
                  /\ chunkVbufNrm' = chunkVbufNrm
            /\ CallStep("fill_add_normal_filled") =>
                  /\ chunkVbufNrm' = [chunkVbufNrm EXCEPT ![lastCall'.at] = VAdd(@, n)]
                  /\ sharedNormals' = sharedNormals
                  /\ sharedNormalsDirty' = sharedNormalsDirty
                  /\ chunkFillSharedNormals' = chunkFillSharedNormals
                  /\ chunkFanNormalContrib' = chunkFanNormalContrib
                  /\ writer' = writer
      ]_vars

\* the second chunk, which has a fan record, has added the normal of a face
\* to one of its fill slots
C18_Witness ==
    /\ lastCall.op = "fill_add_normal_shared"
    /\ lastCall.chunk = 1
    /\ writer[1].contribLast = FanBegin(1) + 1
    /\ chunkFanNormalContrib[FanBegin(1)].sum = Vec(0, 0, 1)
    /\ chunkFillSharedNormals[lastCall.at] = Vec(0, 0, 1)

\* ---------------------------------------------------------------- SpecArea
\* The SysAreaAssociate of one scene.  The calls an operation makes inside
\* itself (update_scan and disconnect call sat_activate and sat_deactivate
\* once per element of a view) are folded into the operation's one step; the
\* working state st holds what those calls change.
AreaState ==
    [m_activatedSats |-> m_activatedSats, ACompActivatedSat |-> ACompActivatedSat,
     subcalls |-> <<>>]

\* the statuses an activator can report other than success
FailStatuses == {2, -1}

\* the StatusActivated an activator can return, but for m_entity
Replies ==
    [m_status : {0}, m_mutable : BOOLEAN] \cup [m_status : FailStatuses, m_mutable : {FALSE}]

\* the status of an activator that cannot create an entity
SceneFull == 2

\* the entity the activator of a satellite creates for it
CreateEntity(comps) ==
    LET free == {e \in Entities : ~comps[e].has}
    IN  IF free = {} THEN entt_null ELSE CHOOSE e \in free : \A o \in free : e <= o

\* IActivator::activate_sat as sat_activate sees it: a status and, on status
\* 0, a new entity
activate_sat(comps, reply) ==
    LET ent == CreateEntity(comps)
    IN  IF reply.m_status = 0 /\ ent = entt_null
        THEN [m_status |-> SceneFull, m_entity |-> entt_null, m_mutable |-> FALSE]
        ELSE IF reply.m_status /= 0
        THEN [m_status |-> reply.m_status, m_entity |-> entt_null, m_mutable |-> FALSE]
        ELSE [m_status |-> 0, m_entity |-> ent, m_mutable |-> reply.m_mutable]

\* the satellite is taken for loaded, whatever m_activatedSats holds
AlreadyActivatedNever(activated, sat) == FALSE

\* m_activatedSats.find(sat) != m_activatedSats.end()
AlreadyActivated(activated, sat) == sat \in activated

\* every status is taken for a success
LoadFailedNever(m_status) == FALSE

\* if (status.m_status): the load failed
LoadFailed(m_status) == m_status /= 0

\* the record of one sat_activate or sat_deactivate call
Returned(st, call) == [st EXCEPT !.subcalls = Append(@, call)]

\* sat_activate(sat, satAct), the activator answering with reply
sat_activate(st, sat, reply) ==
    LET type == UCompType(sat)
        activator == m_activators[type]
        activated == activate_sat(st.ACompActivatedSat, reply)
        call == [fn |-> "sat_activate", sat |-> sat, ent |-> entt_null,
                 activated |-> st.m_activatedSats, invoked |-> <<>>, ret |-> 0]
        invocation == [fn |-> "activate_sat", activator |-> activator,
                       areaSat |-> m_areaSat, sat |-> sat, status |-> activated.m_status]
    IN  IF AlreadyActivated(st.m_activatedSats, sat)
        THEN Returned(st, [call EXCEPT !.ret = 1])
        ELSE IF activator = NoActivator
        THEN Returned(st, [call EXCEPT !.ret = -1])
        ELSE IF LoadFailed(activated.m_status)
        THEN Returned(st, [call EXCEPT !.invoked = <<invocation>>,
                                       !.ret = activated.m_status])
        ELSE Returned([st EXCEPT
                          !.ACompActivatedSat[activated.m_entity] =
                              [has |-> TRUE, m_sat |-> sat, m_activator |-> type,
                               m_mutable |-> activated.m_mutable],
                          !.m_activatedSats = @ \cup {sat}],
                      [call EXCEPT !.invoked = <<invocation>>, !.ent = activated.m_entity])

\* IActivator::deactivate_sat: the activator destroys the entity, or leaves
\* it and its component in the scene
deactivate_sat(comps, ent, destroy) ==
    IF destroy THEN [comps EXCEPT ![ent] = NoComp] ELSE comps

\* the satellite is left in the set
EraseNone(activated, sat) == activated

\* m_activatedSats.erase(sat)
Erase(activated, sat) == activated \ {sat}

\* sat_deactivate(ent, entAct)
sat_deactivate(st, ent, destroy) ==
    LET entAct == st.ACompActivatedSat[ent]
        activator == m_activators[entAct.m_activator]
        call == [fn |-> "sat_deactivate", sat |-> entAct.m_sat, ent |-> ent,
                 activated |-> st.m_activatedSats, invoked |-> <<>>, ret |-> 0]
        invocation == [fn |-> "deactivate_sat", activator |-> activator,
                       areaSat |-> m_areaSat, sat |-> entAct.m_sat, status |-> 0]
    IN  IF entAct.m_sat \notin st.m_activatedSats
        THEN Returned(st, [call EXCEPT !.ret = 1])
        ELSE Returned([st EXCEPT
                          !.ACompActivatedSat = deactivate_sat(@, ent, destroy),
                          !.m_activatedSats = Erase(@, entAct.m_sat)],
                      [call EXCEPT !.invoked = <<invocation>>])

\* the orders in which a view can hand out the elements of S
Orders(S) ==
    {o \in [1 .. Cardinality(S) -> S] : \A i, j \in DOMAIN o : o[i] = o[j] => i = j}

\* the operation op ends in the working state st
AreaDone(op, st) ==
    /\ m_activatedSats' = st.m_activatedSats
    /\ ACompActivatedSat' = st.ACompActivatedSat
    /\ areaCall' = [op |-> op, subcalls |-> st.subcalls]

RECURSIVE ScanView(_, _, _)
\* for (Satellite sat : view) sat_activate(sat, view.get(sat))
ScanView(st, order, replies) ==
    IF order = <<>> THEN st
    ELSE ScanView(sat_activate(st, Head(order), replies[Head(order)]), Tail(order), replies)

\* every satellite is taken for valid, entt::null too
validAlways(sat) == TRUE

\* m_universe.get_reg().valid(sat)
valid(sat) == sat \in Satellites

update_scan(order, replies) ==
    /\ IF ~valid(m_areaSat)
       THEN AreaDone("update_scan", AreaState)
       ELSE AreaDone("update_scan", ScanView(AreaState, order, replies))
    /\ UNCHANGED << m_areaSat, m_activators, geomVars >>

connect(sat) ==
    /\ m_areaSat' = sat
    /\ areaCall' = [op |-> "connect", subcalls |-> <<>>]
    /\ UNCHANGED << m_activatedSats, m_activators, ACompActivatedSat, geomVars >>

RECURSIVE DeactivateView(_, _, _)
\* for (ActiveEnt ent : viewAct) sat_deactivate(ent, viewAct.get(ent))
DeactivateView(st, order, destroyed) ==
    IF order = <<>> THEN st
    ELSE DeactivateView(sat_deactivate(st, Head(order), Head(order) \in destroyed),
                        Tail(order), destroyed)

\* m_scene.get_registry().view<ACompActivatedSat>()
viewAct == {e \in Entities : ACompActivatedSat[e].has}

disconnect(order, destroyed) ==
    /\ IF m_activatedSats /= {}
       THEN AreaDone("disconnect", DeactivateView(AreaState, order, destroyed))
       ELSE AreaDone("disconnect", AreaState)
    /\ m_areaSat' = entt_null
    /\ UNCHANGED << m_activators, geomVars >>

activator_add(type, activator) ==
    /\ m_activators' = [m_activators EXCEPT ![type] = activator]
    /\ areaCall' = [op |-> "activator_add", subcalls |-> <<>>]
    /\ UNCHANGED << m_areaSat, m_activatedSats, ACompActivatedSat, geomVars >>

\* a caller's own sat_activate(sat, satAct)
SatActivateCall(sat, reply) ==
    /\ AreaDone("sat_activate", sat_activate(AreaState, sat, reply))
    /\ UNCHANGED << m_areaSat, m_activators, geomVars >>

\* a caller's own sat_deactivate(ent, entAct)
SatDeactivateCall(ent, destroy) ==
    /\ AreaDone("sat_deactivate", sat_deactivate(AreaState, ent, destroy))
    /\ UNCHANGED << m_areaSat, m_activators, geomVars >>

\* the satellites a caller connects the area to: an active area, or none
ConnectInputs == {0, entt_null}

NextArea ==
    \/ \E order \in Orders(Activatable), replies \in [Activatable -> Replies] :
          update_scan(order, replies)
    \/ \E sat \in ConnectInputs : connect(sat)
    \/ \E order \in Orders(viewAct), destroyed \in SUBSET viewAct :
          disconnect(order, destroyed)
    \/ \E type \in Types, activator \in Activators : activator_add(type, activator)
    \/ \E sat \in Activatable, reply \in Replies : SatActivateCall(sat, reply)
    \/ \E ent \in viewAct, destroy \in BOOLEAN : SatDeactivateCall(ent, destroy)

SpecArea == Init /\ [][NextArea]_vars

\* the sat_activate calls made by the step, each with m_activatedSats as it
\* was when the call was made
ActivateCalls ==
    {call \in {areaCall'.subcalls[k] : k \in DOMAIN areaCall'.subcalls} :
        call.fn = "sat_activate"}

\* the call had the activator's activate_sat invoked once, with this status
Invoked(call, m_status) ==
    /\ Len(call.invoked) = 1
    /\ call.invoked[1].fn = "activate_sat"
    /\ call.invoked[1].sat = call.sat
    /\ call.invoked[1].status = m_status

\* C19: over update_scan, sat_activate, sat_deactivate, connect, disconnect
\* and activator_add calls, a sat_activate for a satellite that is in
\* m_activatedSats returns 1 and invokes no activator, and every satellite a
\* step adds to m_activatedSats had its activator's activate_sat return
\* status 0 in that step.
C19_OneLiveActivation ==
    [][ /\ \A call \in ActivateCalls :
              (call.fn = "sat_activate" /\ call.sat \in call.activated) =>
                  call.ret = 1 /\ call.invoked = <<>>
        /\ \A call \in ActivateCalls :
              call.invoked /= <<>> => call.sat \notin call.activated
        /\ \A sat \in m_activatedSats' \ m_activatedSats :
              \E call \in ActivateCalls :
                  call.fn = "sat_activate" /\ call.sat = sat /\ Invoked(call, 0)
      ]_vars

\* a scan found satellite 1 activated already and activated satellite 2
C19_Witness ==
    /\ areaCall.op = "update_scan"
    /\ m_activatedSats = {1, 2}
    /\ \E k, j \in DOMAIN areaCall.subcalls :
          /\ areaCall.subcalls[k].sat = 1
          /\ areaCall.subcalls[k].activated = {1}
          /\ areaCall.subcalls[k].ret = 1
          /\ areaCall.subcalls[j].sat = 2
          /\ areaCall.subcalls[j].ret = 0
          /\ Len(areaCall.subcalls[j].invoked) = 1

\* the sat_activate call found no activator, or had the activator fail
ActivationFailed(call) ==
    /\ call.fn = "sat_activate"
    /\ call.sat \notin call.activated
    /\ \/ m_activators[UCompType(call.sat)] = NoActivator
       \/ \E m_status \in FailStatuses : Invoked(call, m_status)

\* C20: a sat_activate that finds no activator for the satellite's type
\* returns -1 and invokes no activator; one whose activator reports a
\* non-zero status returns that status; neither adds the satellite to
\* m_activatedSats nor attaches an ACompActivatedSat for it, a caller's own
\* failed sat_activate changes neither at all, and the satellite is not in
\* m_activatedSats after the step, so a later scan tries it again.
C20_FailedActivation ==
    [][ \A call \in ActivateCalls :
           /\ (call.fn = "sat_activate" /\ call.sat \notin call.activated
                 /\ m_activators[UCompType(call.sat)] = NoActivator) =>
                   call.ret = -1 /\ call.invoked = <<>>
           /\ \A m_status \in FailStatuses :
                 Invoked(call, m_status) => call.ret = m_status
           /\ ActivationFailed(call) =>
                 /\ call.sat \notin m_activatedSats'
                 /\ call.ent = entt_null
                 /\ \A e \in Entities :
                       ACompActivatedSat'[e] /= ACompActivatedSat[e] =>
                           ACompActivatedSat'[e].m_sat /= call.sat
                 /\ areaCall'.op = "sat_activate" =>
                       /\ m_activatedSats' = m_activatedSats
                       /\ ACompActivatedSat' = ACompActivatedSat
      ]_vars

\* a scan in which satellite 1's activator reported status 2 and satellite 2
\* had no activator, after an earlier scan had failed the same way
C20_Witness ==
    /\ areaCall.op = "update_scan"
    /\ m_activatedSats = {}
    /\ \A e \in Entities : ~ACompActivatedSat[e].has
    /\ m_activators["vehicle"] = NoActivator
    /\ \E k, j \in DOMAIN areaCall.subcalls :
          /\ areaCall.subcalls[k].sat = 1
          /\ areaCall.subcalls[k].ret = 2
          /\ Len(areaCall.subcalls[k].invoked) = 1
          /\ areaCall.subcalls[j].sat = 2
          /\ areaCall.subcalls[j].ret = -1
          /\ areaCall.subcalls[j].invoked = <<>>

\* the calls of the step that had the activator's deactivate_sat invoked for
\* satellite sat
DeactivateInvocations(sat) ==
    {k \in DOMAIN areaCall'.subcalls :
        /\ Len(areaCall'.subcalls[k].invoked) = 1
        /\ areaCall'.subcalls[k].invoked[1].fn = "deactivate_sat"
        /\ areaCall'.subcalls[k].invoked[1].sat = sat}

\* C21: a disconnect has deactivate_sat invoked exactly once for every
\* satellite that was in m_activatedSats and for no other, and leaves
\* m_activatedSats empty and m_areaSat null; while m_areaSat is not a valid
\* satellite an update_scan calls nothing and changes nothing, and only a
\* connect with a valid satellite makes m_areaSat valid again.
C21_DisconnectDeactivatesAll ==
    [][ /\ areaCall'.op = "disconnect" =>
              /\ \A sat \in m_activatedSats : Cardinality(DeactivateInvocations(sat)) = 1
              /\ \A sat \in Satellites \ m_activatedSats : DeactivateInvocations(sat) = {}
              /\ m_activatedSats' = {}
              /\ m_areaSat' = entt_null
        /\ (areaCall'.op = "update_scan" /\ m_areaSat \notin Satellites) =>
              /\ areaCall'.subcalls = <<>>
              /\ m_activatedSats' = m_activatedSats
              /\ ACompActivatedSat' = ACompActivatedSat
        /\ (m_areaSat \notin Satellites /\ m_areaSat' \in Satellites) =>
              areaCall'.op = "connect"
      ]_vars

\* a disconnect of a connected area that deactivated satellites 1 and 2
C21_Witness ==
    /\ areaCall.op = "disconnect"
    /\ m_activatedSats = {}
    /\ m_areaSat = entt_null
    /\ Len(areaCall.subcalls) = 2
    /\ areaCall.subcalls[1].activated = {1, 2}
    /\ areaCall.subcalls[1].invoked /= <<>>
    /\ areaCall.subcalls[2].invoked /= <<>>
    /\ areaCall.subcalls[1].invoked[1].areaSat = 0

\* the sat_deactivate calls made by the step, each with m_activatedSats as it
\* was when the call was made
DeactivateCalls ==
    {call \in {areaCall'.subcalls[k] : k \in DOMAIN areaCall'.subcalls} :
        call.fn = "sat_deactivate"}

\* the step before was the successful sat_activate that attached the
\* ACompActivatedSat of entity ent
JustActivated(ent) ==
    /\ areaCall.op = "sat_activate"
    /\ areaCall.subcalls[1].ret = 0
    /\ areaCall.subcalls[1].ent = ent

\* C22: a sat_deactivate for an entity whose satellite is in m_activatedSats
\* has deactivate_sat invoked once for that satellite, removes the satellite
\* and nothing else and returns 0; made right after the sat_activate that
\* attached the entity's component, it leaves m_activatedSats as that
\* sat_activate found it.  For an entity whose satellite is not in the set
\* it returns 1, invokes nothing and changes nothing.
C22_RoundTrip ==
    [][ /\ \A call \in DeactivateCalls :
              /\ call.sat \in call.activated =>
                    /\ call.ret = 0
                    /\ Len(call.invoked) = 1
                    /\ call.invoked[1].fn = "deactivate_sat"
                    /\ call.invoked[1].sat = call.sat
              /\ call.sat \notin call.activated =>
                    call.ret = 1 /\ call.invoked = <<>>
        /\ areaCall'.op = "sat_deactivate" =>
              LET call == areaCall'.subcalls[1]
                  entAct == ACompActivatedSat[call.ent]
              IN  /\ Len(areaCall'.subcalls) = 1
                  /\ call.fn = "sat_deactivate"
                  /\ entAct.has
                  /\ call.sat = entAct.m_sat
                  /\ call.activated = m_activatedSats
                  /\ entAct.m_sat \in m_activatedSats =>
                        /\ m_activatedSats' = m_activatedSats \ {entAct.m_sat}
                        /\ JustActivated(call.ent) =>
                              m_activatedSats' = areaCall.subcalls[1].activated
                        /\ \A e \in Entities \ {call.ent} :
                              ACompActivatedSat'[e] = ACompActivatedSat[e]
                  /\ entAct.m_sat \notin m_activatedSats =>
                        /\ m_activatedSats' = m_activatedSats
                        /\ ACompActivatedSat' = ACompActivatedSat
                  /\ m_areaSat' = m_areaSat
                  /\ m_activators' = m_activators
      ]_vars

\* satellite 1 was deactivated while satellite 2 stays activated, and its
\* entity is gone
C22_Witness ==
    /\ areaCall.op = "sat_deactivate"
    /\ areaCall.subcalls[1].sat = 1
    /\ areaCall.subcalls[1].activated = {1, 2}
    /\ areaCall.subcalls[1].ret = 0
    /\ Len(areaCall.subcalls[1].invoked) = 1
    /\ m_activatedSats = {2}
    /\ ~ACompActivatedSat[areaCall.subcalls[1].ent].has

====
